---- MODULE Spec2Model ----
(***************************************************************************)
(* Model of the job store (src/src/database/repository.py, models.py) and  *)
(* of the batch application run (src/src/linkedin/job_applier.py).         *)
(*                                                                         *)
(* jobs     the committed rows of table "jobs"; the primary key of a row   *)
(*          is its position (autoincrement, single writer at commit)       *)
(* apps     the committed rows of table "applications" (id = position)     *)
(* callers  the clients of add_job / add_jobs_batch, each with its own     *)
(*          session: the existence check and the insert+commit are         *)
(*          separate steps, as they are separate statements in the code    *)
(* api      the last call of create_application or                         *)
(*          update_application_status and what it returned                 *)
(* engine   the JobApplier of the current run: its position in             *)
(*          apply_to_jobs, the listings it fetched, its stats              *)
(* attempt  the current call of apply_to_job: its position in the page     *)
(*          script, the loop counter of the application modal, what it     *)
(*          returned                                                       *)
(* selector the ResumeSelector: its loaded profiles in insertion order,    *)
(*          and the last call of select_resume with what it returned       *)
(***************************************************************************)
EXTENDS Integers, Sequences, FiniteSets, TLC

VARIABLES jobs, apps, callers, api, engine, attempt, selector

vars == <<jobs, apps, callers, api, engine, attempt, selector>>

\* ---------------------------------------------------------------- bounds
\* MaxBatch      longest jobs_data list of a single caller's add_jobs_batch
\* MaxConcBatch  longest jobs_data list when two callers run at once
\* MaxApps       most rows of table applications
\* MaxRequested  greatest max_applications passed to run
MaxBatch == 3
MaxConcBatch == 2
MaxApps == 2
MaxRequested == 2

\* Settings.max_applications_per_run, its default
max_applications_per_run == 10

\* ------------------------------------------------------------ enumerations
PENDING == "pending"
APPLIED == "applied"
EASY_APPLY == "easy_apply"
EXTERNAL == "external"
SKIPPED == "skipped"
FAILED == "failed"

ApplicationStatus == {PENDING, APPLIED, EASY_APPLY, EXTERNAL, SKIPPED, FAILED}

\* linkedin_job_id values (String(50)); the ids the tests insert
LinkedinIds == {"1", "2", "3"}

NULL == "NULL"
None == "None"
\* datetime.utcnow(): some timestamp; only its being set is ever read
UtcNow == "utcnow"
IntegrityError == "IntegrityError"

\* ------------------------------------------------------------- helpers
Range(s) == {s[k] : k \in DOMAIN s}

RECURSIVE SeqsUpTo(_, _)
SeqsUpTo(S, n) ==
    IF n = 0 THEN {<<>>}
    ELSE LET shorter == SeqsUpTo(S, n - 1)
         IN  shorter \cup {Append(s, x) : s \in {t \in shorter : Len(t) = n - 1}, x \in S}

\* Job(**job_data): the columns the store's queries read (title, company,
\* job_url and the other text columns are stored and never queried here)
Job(job_data) ==
    [linkedin_job_id |-> job_data.linkedin_job_id,
     is_easy_apply   |-> job_data.is_easy_apply,
     scraped_at      |-> job_data.scraped_at]

StoredIds(rows) == {rows[k].linkedin_job_id : k \in DOMAIN rows}

\* a check that finds nothing, whatever is stored
job_exists_never(rows, linkedin_job_id) == FALSE

\* session.query(Job).filter(Job.linkedin_job_id == id).first() is not None
job_exists(rows, linkedin_job_id) == linkedin_job_id \in StoredIds(rows)

\* get_job_count
get_job_count == Len(jobs)

\* a column declared without unique=True
UniqueViolation_none(rows, new) == FALSE

\* Column(String(50), unique=True): the INSERT of a row whose linkedin_job_id
\* is already in the table (committed, or inserted earlier by the same
\* session) violates the constraint and the statement raises
UniqueViolation(rows, new) ==
    \E k \in DOMAIN new :
        \/ new[k].linkedin_job_id \in StoredIds(rows)
        \/ \E j \in DOMAIN new : j < k /\ new[j].linkedin_job_id = new[k].linkedin_job_id

\* --------------------------------------------------------------- callers
Callers == {1, 2}

Idle == [pc |-> "idle", op |-> "none", data |-> <<>>, i |-> 0,
         pending |-> <<>>, pre |-> <<>>, ret |-> NULL, rows |-> <<>>]

\* ret is what the call returned or raised (None, a Job, a list, or
\* IntegrityError), rows the Job or the list returned

\* what the discovery side passes in
SingleData == [linkedin_job_id : LinkedinIds, is_easy_apply : BOOLEAN, scraped_at : {1}]
BatchData == [linkedin_job_id : LinkedinIds, is_easy_apply : {TRUE}, scraped_at : {1}]

NoCall == [op |-> "none", id |-> 0, result |-> NULL]

\* JobApplier.__init__, lines 30-36: the stats of a new JobApplier
NewStats == [attempted |-> 0, successful |-> 0, skipped |-> 0, failed |-> 0]

\* no run: given and requested are the max_applications the run was called
\* with (given is FALSE for None), base the number of rows of table
\* applications when the run started, outcome the way the last call of
\* apply_to_job ended, auto_apply_enabled the setting run read (False is its
\* default, config.py line 56), browser whether the browsing session is open
NoRun == [pc |-> "idle", jobs |-> <<>>, max_apps |-> 0, i |-> 0,
          application |-> 0, success |-> FALSE, stats |-> NewStats,
          returned |-> FALSE, given |-> FALSE, requested |-> 0,
          base |-> 0, outcome |-> "none", auto_apply_enabled |-> FALSE,
          browser |-> FALSE]

\* no call of apply_to_job is running. raised: a page operation of this
\* call raised; after_raise: a page operation was issued after one raised;
\* blank: no iteration of the modal loop has seen a success marker or a
\* control it acts on; control: the button clicked after the step resolver;
\* confirmed: a success marker was seen on the page; branch, ops, error_seen:
\* of the current iteration of the modal loop, the branch taken for the
\* primary button, the calls of the step resolver ("fill") and the clicks of
\* a control ("click") in their order, and whether an error marker was found;
\* provider, cover_filled: of the current step of the resolver, what the
\* text provider did and whether the cover letter field was filled
NoAttempt == [pc |-> "idle", step |-> 0, result |-> FALSE, outcome |-> "none",
              raised |-> FALSE, after_raise |-> FALSE, blank |-> TRUE,
              control |-> "none", fields |-> 0, groups |-> 0,
              confirmed |-> FALSE, branch |-> "none", ops |-> <<>>,
              error_seen |-> FALSE, provider |-> "not_called",
              cover_filled |-> FALSE]

\* A text is the sequence of its characters.  NoneText stands for None where
\* a text is optional, NoPath for None where a path is.
NoneText == <<"None">>
NoPath == <<>>

\* a ResumeSelector with no profile loaded and select_resume not yet called
NoSelect == [called |-> FALSE, job_title |-> <<>>, job_description |-> NoneText,
             company |-> NoneText, result |-> NoPath]

NoSelector == [profiles |-> <<>>, call |-> NoSelect]

Init ==
    /\ jobs = <<>>
    /\ apps = <<>>
    /\ callers = [c \in Callers |-> Idle]
    /\ api = NoCall
    /\ engine = NoRun
    /\ attempt = NoAttempt
    /\ selector = NoSelector

\* add_job, line 45: the existence check in a session of its own
AddJobCheck(c, d) ==
    /\ callers[c].pc = "idle"
    /\ callers' = [callers EXCEPT ![c] =
          IF job_exists(jobs, d.linkedin_job_id)
          THEN [Idle EXCEPT !.op = "add_job", !.data = <<d>>, !.pre = jobs,
                            !.ret = None]
          ELSE [Idle EXCEPT !.pc = "add_job", !.op = "add_job", !.data = <<d>>,
                            !.pre = jobs]]
    /\ UNCHANGED <<jobs, apps, api, engine, attempt, selector>>

\* add_job, lines 48-53: session.add, commit, refresh, return job
AddJobInsert(c) ==
    /\ callers[c].pc = "add_job"
    /\ LET row == Job(callers[c].data[1])
       IN  IF UniqueViolation(jobs, <<row>>)
           THEN /\ jobs' = jobs
                /\ callers' = [callers EXCEPT ![c].pc = "idle",
                                              ![c].ret = IntegrityError]
           ELSE /\ jobs' = Append(jobs, row)
                /\ callers' = [callers EXCEPT ![c].pc = "idle",
                                              ![c].ret = "Job",
                                              ![c].rows = <<row>>]
    /\ UNCHANGED <<apps, api, engine, attempt, selector>>

\* add_jobs_batch, lines 57-58: open the session
BatchBegin(c, ds) ==
    /\ callers[c].pc = "idle"
    /\ callers' = [callers EXCEPT ![c] =
          [Idle EXCEPT !.pc = "batch", !.op = "add_jobs_batch", !.data = ds,
                       !.i = 1, !.pre = jobs]]
    /\ UNCHANGED <<jobs, apps, api, engine, attempt, selector>>

\* a query that does not see the session's own pending rows
existing_committed_only(c, d) == job_exists(jobs, d.linkedin_job_id)

\* add_jobs_batch, lines 63-65: the query runs in the batch's session, after
\* the autoflush, so it sees the committed rows and the session's own rows
existing(c, d) == job_exists(jobs \o callers[c].pending, d.linkedin_job_id)

\* add_jobs_batch, lines 59-70: one iteration of the loop.  The query
\* autoflushes the rows added so far (their INSERT meets the unique
\* constraint), then sees the committed rows and the session's own rows.
BatchItem(c) ==
    /\ callers[c].pc = "batch"
    /\ callers[c].i <= Len(callers[c].data)
    /\ LET me == callers[c]
           d == me.data[me.i]
       IN  IF UniqueViolation(jobs, me.pending)
           THEN callers' = [callers EXCEPT ![c].pc = "idle",
                                           ![c].pending = <<>>,
                                           ![c].ret = IntegrityError]
           ELSE IF existing(c, d)
           THEN callers' = [callers EXCEPT ![c].i = me.i + 1]
           ELSE callers' = [callers EXCEPT ![c].i = me.i + 1,
                                           ![c].pending = Append(me.pending, Job(d))]
    /\ UNCHANGED <<jobs, apps, api, engine, attempt, selector>>

\* add_jobs_batch, lines 72-76: flush, commit, refresh, return added_jobs
BatchCommit(c) ==
    /\ callers[c].pc = "batch"
    /\ callers[c].i > Len(callers[c].data)
    /\ LET me == callers[c]
       IN  IF UniqueViolation(jobs, me.pending)
           THEN /\ jobs' = jobs
                /\ callers' = [callers EXCEPT ![c].pc = "idle",
                                              ![c].pending = <<>>,
                                              ![c].ret = IntegrityError]
           ELSE /\ jobs' = jobs \o me.pending
                /\ callers' = [callers EXCEPT ![c].pc = "idle",
                                              ![c].pending = <<>>,
                                              ![c].ret = "list",
                                              ![c].rows = me.pending]
    /\ UNCHANGED <<apps, api, engine, attempt, selector>>

Batches == SeqsUpTo(BatchData, MaxBatch)

StoreStep(c, singles, batches) ==
    \/ \E d \in singles : AddJobCheck(c, d)
    \/ AddJobInsert(c)
    \/ \E ds \in batches : BatchBegin(c, ds)
    \/ BatchItem(c)
    \/ BatchCommit(c)

\* one caller at a time: the discovery pipeline as the program runs it
Next == StoreStep(1, SingleData, Batches)

Spec == Init /\ [][Next]_vars

\* two discovery runs at once, over the ids they both find
ConcData == {d \in BatchData : d.linkedin_job_id \in {"1", "2"}}

NextConc == \E c \in Callers : StoreStep(c, ConcData, SeqsUpTo(ConcData, MaxConcBatch))
SpecConc == Init /\ [][NextConc]_vars
\* ------------------------------------------------- properties of the store
Returned(c) == callers[c].pc = "idle" /\ callers[c].op # "none"

NoTwoListingsShareAnId ==
    \A a, b \in DOMAIN jobs :
        jobs[a].linkedin_job_id = jobs[b].linkedin_job_id => a = b

\* C1: with a single caller the store never holds two listings with one
\* linkedin_job_id; an add_job of an id that was stored when the call began
\* returns None and leaves the listings as they were; a batch never returns
\* an item whose id was stored when the call began.
C1_DedupIdempotence ==
    /\ NoTwoListingsShareAnId
    /\ LET me == callers[1]
       IN  /\ (Returned(1) /\ me.op = "add_job"
                /\ me.data[1].linkedin_job_id \in StoredIds(me.pre))
              => (me.ret = None /\ jobs = me.pre)
           /\ (Returned(1) /\ me.op = "add_jobs_batch")
              => /\ me.ret = "list"
                 /\ StoredIds(me.rows) \cap StoredIds(me.pre) = {}

\* a second add_job of a stored id has returned, with other attributes than
\* the stored row has
C1_Witness ==
    /\ Returned(1)
    /\ callers[1].op = "add_job"
    /\ callers[1].ret = None
    /\ \E k \in DOMAIN jobs :
          /\ jobs[k].linkedin_job_id = callers[1].data[1].linkedin_job_id
          /\ jobs[k] # Job(callers[1].data[1])

\* C2: under every interleaving of two callers inserting the same id, the
\* store never holds two listings with that id.
C2_NoDuplicateUnderRace ==
    \A a, b \in DOMAIN jobs :
        (a # b) => jobs[a].linkedin_job_id # jobs[b].linkedin_job_id

\* both callers passed the existence check for one id; one committed its row
\* and the other's insert then met the constraint
C2_Witness ==
    /\ Returned(1) /\ Returned(2)
    /\ callers[1].op = "add_job" /\ callers[2].op = "add_job"
    /\ callers[1].data = callers[2].data
    /\ callers[1].ret = "Job"
    /\ callers[1].rows = <<Job(callers[1].data[1])>>
    /\ callers[2].ret = IntegrityError

\* C3: no caller of add_job / add_jobs_batch ever gets an error for a
\* duplicate: the loser of a race gets None or a list without the item.
C3_DuplicateIsNeverAnError ==
    \A c \in Callers : callers[c].ret # IntegrityError

\* the items add_jobs_batch is to return: those whose id was not stored when
\* the call began and does not occur earlier in the same batch
NewItems(pre, ds) ==
    LET keep == {k \in DOMAIN ds :
                    /\ ds[k].linkedin_job_id \notin StoredIds(pre)
                    /\ \A j \in DOMAIN ds :
                          j < k => ds[j].linkedin_job_id # ds[k].linkedin_job_id}
        Pick[k \in 0..Len(ds)] ==
            IF k = 0 THEN <<>>
            ELSE IF k \in keep THEN Append(Pick[k - 1], Job(ds[k]))
            ELSE Pick[k - 1]
    IN  Pick[Len(ds)]

\* C4: a returned add_jobs_batch returned exactly the items whose id was
\* neither stored before the call nor inserted earlier in the same batch, and
\* get_job_count grew by the length of the returned list.
C4_BatchReturnsNewSubset ==
    (Returned(1) /\ callers[1].op = "add_jobs_batch")
    => /\ callers[1].ret = "list"
       /\ callers[1].rows = NewItems(callers[1].pre, callers[1].data)
       /\ get_job_count = Len(callers[1].pre) + Len(NewItems(callers[1].pre, callers[1].data))

\* a batch of 3 distinct ids, exactly 1 of them stored before: 2 are added
C4_Witness ==
    /\ Returned(1) /\ callers[1].op = "add_jobs_batch"
    /\ Len(callers[1].data) = 3
    /\ Cardinality(StoredIds(callers[1].data)) = 3
    /\ Cardinality(StoredIds(callers[1].data) \cap StoredIds(callers[1].pre)) = 1
    /\ Len(callers[1].rows) = 2
    /\ get_job_count = Len(callers[1].pre) + 2

\* ----------------------------------------------------------- applications
SuccessStatuses == {APPLIED, EASY_APPLY}

\* create_application, lines 135-145: the new row (cover_letter, resume_used
\* and notes are stored as passed and read by no operation modelled here)
Application(job_id, status) ==
    [job_id        |-> job_id,
     status        |-> status,
     applied_at    |-> IF status \in SuccessStatuses THEN UtcNow ELSE NULL,
     error_message |-> NULL]

\* every application is reused for a new attempt at its listing
create_application_reuse(rows, job_id, status) ==
    IF \E a \in DOMAIN rows : rows[a].job_id = job_id
    THEN [a \in DOMAIN rows |->
            IF rows[a].job_id = job_id THEN [rows[a] EXCEPT !.status = status]
            ELSE rows[a]]
    ELSE Append(rows, Application(job_id, status))

\* create_application, lines 134-149
create_application(rows, job_id, status) == Append(rows, Application(job_id, status))

\* an update that inserts the row it does not find
update_or_insert(rows, application_id, status, error_message) ==
    IF application_id \in DOMAIN rows
    THEN [rows EXCEPT ![application_id].status = status]
    ELSE Append(rows, Application(1, status))

\* update_application_status, lines 158-170: the rows after the call
update_application_status(rows, application_id, status, error_message) ==
    IF application_id \in DOMAIN rows
    THEN [rows EXCEPT ![application_id] =
            [@ EXCEPT !.status = status,
                      !.error_message = IF error_message # NULL THEN error_message ELSE @,
                      !.applied_at = IF status \in SuccessStatuses THEN UtcNow ELSE @]]
    ELSE rows

\* update_application_status, line 172: return application, the row of that
\* id, or None if the query found no row
update_application_status_result(rows, application_id) ==
    IF application_id \in DOMAIN rows THEN "Application" ELSE None

\* add_job as one call of a single caller (lines 45-53)
add_job(rows, job_data) ==
    IF job_exists(rows, job_data.linkedin_job_id) THEN rows
    ELSE Append(rows, Job(job_data))

AddJob(d) ==
    /\ jobs' = add_job(jobs, d)
    /\ UNCHANGED <<apps, callers, engine, attempt, selector>>

CreateApplication(job_id, status) ==
    /\ Len(apps) < MaxApps
    /\ apps' = create_application(apps, job_id, status)
    /\ UNCHANGED <<jobs, callers, engine, attempt, selector>>

UpdateApplicationStatus(application_id, status, error_message) ==
    /\ apps' = update_application_status(apps, application_id, status, error_message)
    /\ UNCHANGED <<jobs, callers, engine, attempt, selector>>

ErrorMessages == {NULL, "Application could not be completed"}

\* the store's application interface under a client that calls it freely
AppsData == [linkedin_job_id : {"1"}, is_easy_apply : BOOLEAN, scraped_at : {1}]

\* api records the call made and what it returned to the client
NextApps ==
    \/ \E d \in AppsData : AddJob(d) /\ api' = NoCall
    \/ \E j \in DOMAIN jobs, st \in ApplicationStatus :
          /\ CreateApplication(j, st)
          /\ api' = [op |-> "create_application", id |-> Len(apps'), result |-> "Application"]
    \/ \E id \in 1..(MaxApps + 1), st \in ApplicationStatus, e \in ErrorMessages :
          /\ UpdateApplicationStatus(id, st, e)
          /\ api' = [op |-> "update_application_status", id |-> id,
                     result |-> update_application_status_result(apps, id)]

SpecApps == Init /\ [][NextApps]_vars

\* C7: every Application has applied_at set if and only if its status is
\* applied or easy_apply, after any sequence of create_application and
\* update_application_status calls.
C7_AppliedAtIffSuccess ==
    \A a \in DOMAIN apps :
        (apps[a].applied_at # NULL) <=> (apps[a].status \in SuccessStatuses)

Min(a, b) == IF a < b THEN a ELSE b

Perms(S) ==
    {s \in [1..Cardinality(S) -> S] : \A i, j \in DOMAIN s : s[i] = s[j] => i = j}

\* a subquery that forgets the skipped applications
applied_job_ids_applied ==
    {apps[a].job_id : a \in {x \in DOMAIN apps : apps[x].status \in {APPLIED, SKIPPED}}}

applied_job_ids_unskipped ==
    {apps[a].job_id : a \in {x \in DOMAIN apps : apps[x].status \in {APPLIED, EASY_APPLY}}}

\* get_unapplied_easy_apply_jobs, lines 96-102: the subquery
applied_job_ids ==
    {apps[a].job_id :
        a \in {x \in DOMAIN apps : apps[x].status \in {APPLIED, EASY_APPLY, SKIPPED}}}

\* oldest first
InOrder_asc(s) ==
    \A i, j \in DOMAIN s : i < j => jobs[s[i]].scraped_at <= jobs[s[j]].scraped_at

\* order_by(Job.scraped_at.desc()), line 108: rows with equal scraped_at
\* come in an order the database chooses
InOrder(s) ==
    \A i, j \in DOMAIN s : i < j => jobs[s[i]].scraped_at >= jobs[s[j]].scraped_at

\* get_unapplied_easy_apply_jobs, lines 105-108: the lists (of Job.id) the
\* query may return
get_unapplied_easy_apply_jobs(limit) ==
    LET rows == {k \in DOMAIN jobs : jobs[k].is_easy_apply /\ k \notin applied_job_ids}
    IN  {SubSeq(s, 1, Min(limit, Len(s))) : s \in {p \in Perms(rows) : InOrder(p)}}

\* two listings, and as many discovery times as listings: every order of
\* discovery, ties included
QueryIds == {"1", "2"}
Times == 1..Cardinality(QueryIds)
QueryData == [linkedin_job_id : QueryIds, is_easy_apply : BOOLEAN, scraped_at : Times]

\* the store under a client that adds listings and writes applications, as
\* the states get_unapplied_easy_apply_jobs is asked in
NextQuery ==
    \/ \E d \in QueryData : AddJob(d) /\ UNCHANGED api
    \/ \E j \in DOMAIN jobs, st \in ApplicationStatus :
          CreateApplication(j, st) /\ UNCHANGED api
    \/ \E id \in 1..MaxApps, st \in ApplicationStatus :
          UpdateApplicationStatus(id, st, NULL) /\ UNCHANGED api

SpecQuery == Init /\ [][NextQuery]_vars

Limits == 0..(Len(jobs) + 1)

HasApplication(k, statuses) ==
    \E a \in DOMAIN apps : apps[a].job_id = k /\ apps[a].status \in statuses

\* C5: a listing with an application in status applied, easy_apply or skipped
\* is in no result of get_unapplied_easy_apply_jobs; an easy-apply listing
\* whose applications are all pending or failed is in the result, unless the
\* result is full (has `limit` rows).
C5_EligibilityExclusion ==
    \A limit \in Limits : \A r \in get_unapplied_easy_apply_jobs(limit) :
        /\ \A k \in Range(r) : ~HasApplication(k, {APPLIED, EASY_APPLY, SKIPPED})
        /\ \A k \in DOMAIN jobs :
              (jobs[k].is_easy_apply /\ ~HasApplication(k, ApplicationStatus \ {PENDING, FAILED}))
              => (k \in Range(r) \/ Len(r) = limit)

\* one listing has a skipped application and is left out, another has only a
\* failed one and is returned
C5_Witness ==
    \E k, n \in DOMAIN jobs :
        /\ jobs[k].is_easy_apply /\ jobs[n].is_easy_apply
        /\ HasApplication(k, {SKIPPED})
        /\ HasApplication(n, {FAILED}) /\ ~HasApplication(n, ApplicationStatus \ {FAILED})
        /\ get_unapplied_easy_apply_jobs(2) = {<<n>>}

Eligible ==
    {k \in DOMAIN jobs :
        jobs[k].is_easy_apply /\ ~HasApplication(k, {APPLIED, EASY_APPLY, SKIPPED})}

\* C6: every result of get_unapplied_easy_apply_jobs(limit) holds easy-apply
\* listings only, has min(limit, number eligible) rows, is ordered by
\* scraped_at descending, and no eligible listing left out is more recent
\* than one returned.
C6_MostRecentFirstBounded ==
    \A limit \in Limits : \A r \in get_unapplied_easy_apply_jobs(limit) :
        /\ \A k \in Range(r) : jobs[k].is_easy_apply
        /\ Len(r) = Min(limit, Cardinality(Eligible))
        /\ \A i, j \in DOMAIN r : i < j => jobs[r[i]].scraped_at >= jobs[r[j]].scraped_at
        /\ \A k \in Range(r), n \in Eligible \ Range(r) :
              jobs[k].scraped_at >= jobs[n].scraped_at

\* two eligible listings, the one inserted second discovered later: limit 1
\* returns it alone
C6_Witness ==
    /\ Eligible = {1, 2}
    /\ jobs[2].scraped_at > jobs[1].scraped_at
    /\ get_unapplied_easy_apply_jobs(1) = {<<2>>}

\* ------------------------------------------------------- the batch run
\* what the page lets one call of apply_to_job come to
PageOutcomes ==
    {"already_applied", "no_button", "not_easy_apply", "submitted", "exhausted", "error"}

\* apply_to_job, lines 42-86: True only from a completed modal; every other
\* way out, the except clause included, returns False
apply_to_job(outcome) == outcome = "submitted"

\* a failed attempt left pending
TerminalStatus_retry(success) == IF success THEN EASY_APPLY ELSE PENDING

\* apply_to_jobs, lines 341-353: the status written for the attempt
TerminalStatus(success) == IF success THEN EASY_APPLY ELSE FAILED

\* apply_to_jobs, line 288: max_applications or the setting
MaxAppsOf(given, max_applications) ==
    IF given /\ max_applications # 0 THEN max_applications
    ELSE max_applications_per_run

\* run going into apply_to_jobs whatever the setting
Run_ignores_setting(auto_apply_enabled, given, max_applications) ==
    /\ engine.pc = "idle"
    /\ LET max_apps == MaxAppsOf(given, max_applications)
           called == [NoRun EXCEPT !.given = given,
                                   !.requested = IF given THEN max_applications ELSE 0,
                                   !.base = Len(apps),
                                   !.max_apps = max_apps,
                                   !.auto_apply_enabled = auto_apply_enabled]
       IN  \E fetched \in get_unapplied_easy_apply_jobs(max_apps) :
              LET todo == SubSeq(fetched, 1, Min(max_apps, Len(fetched)))
              IN  /\ Len(apps) + Len(todo) <= MaxApps
                  /\ engine' = IF fetched = <<>>
                               THEN [called EXCEPT !.returned = TRUE]
                               ELSE [called EXCEPT !.pc = "create",
                                                   !.jobs = todo,
                                                   !.i = 1,
                                                   !.browser = TRUE]
    /\ UNCHANGED <<jobs, apps, callers, api, attempt, selector>>

\* main.py: a new JobApplier, then run(max_applications) (lines 371-377),
\* into apply_to_jobs up to the start of the loop (lines 288-318).  A run
\* starts only if table applications has room (MaxApps) for its attempts,
\* so that every run that starts can finish.
Run(auto_apply_enabled, given, max_applications) ==
    /\ engine.pc = "idle"
    /\ LET max_apps == MaxAppsOf(given, max_applications)
           called == [NoRun EXCEPT !.given = given,
                                   !.requested = IF given THEN max_applications ELSE 0,
                                   !.base = Len(apps),
                                   !.max_apps = max_apps,
                                   !.auto_apply_enabled = TRUE]
       IN  IF ~auto_apply_enabled
           THEN engine' = [NoRun EXCEPT !.returned = TRUE, !.base = Len(apps)]
           ELSE \E fetched \in get_unapplied_easy_apply_jobs(max_apps) :
                  LET todo == SubSeq(fetched, 1, Min(max_apps, Len(fetched)))
                  IN  /\ Len(apps) + Len(todo) <= MaxApps
                      /\ engine' = IF fetched = <<>>
                                   THEN [called EXCEPT !.returned = TRUE]
                                   ELSE [called EXCEPT !.pc = "create",
                                                       !.jobs = todo,
                                                       !.i = 1,
                                                       !.browser = TRUE]
    /\ UNCHANGED <<jobs, apps, callers, api, attempt, selector>>

\* apply_to_jobs, lines 319-337: count the attempt, create its application
CreatePending ==
    /\ engine.pc = "create"
    /\ apps' = create_application(apps, engine.jobs[engine.i], PENDING)
    /\ engine' = [engine EXCEPT !.pc = "apply",
                                !.stats.attempted = @ + 1,
                                !.application = Len(apps')]
    /\ UNCHANGED <<jobs, callers, api, attempt, selector>>

\* apply_to_jobs, line 339: success = await self.apply_to_job(job)
ApplyToJob(outcome) ==
    /\ engine.pc = "apply"
    /\ engine' = [engine EXCEPT !.pc = "update", !.success = apply_to_job(outcome),
                                !.outcome = outcome]
    /\ UNCHANGED <<jobs, apps, callers, api, attempt, selector>>

\* the attempts that never opened the form counted as skipped
WriteStatus_counts_skipped ==
    /\ engine.pc = "update"
    /\ apps' = update_application_status(
                  apps, engine.application, TerminalStatus(engine.success),
                  IF engine.success THEN NULL ELSE "Application could not be completed")
    /\ engine' = [engine EXCEPT
                    !.pc = "sleep",
                    !.stats.successful = IF engine.success THEN @ + 1 ELSE @,
                    !.stats.skipped = IF engine.outcome = "already_applied" THEN @ + 1 ELSE @,
                    !.stats.failed = IF engine.success \/ engine.outcome = "already_applied"
                                     THEN @ ELSE @ + 1]
    /\ UNCHANGED <<jobs, callers, api, attempt, selector>>

\* the status written to the first application of the run
WriteStatus_first_row ==
    /\ engine.pc = "update"
    /\ apps' = update_application_status(
                  apps, engine.base + 1, TerminalStatus(engine.success),
                  IF engine.success THEN NULL ELSE "Application could not be completed")
    /\ engine' = [engine EXCEPT
                    !.pc = "sleep",
                    !.stats.successful = IF engine.success THEN @ + 1 ELSE @,
                    !.stats.failed = IF engine.success THEN @ ELSE @ + 1]
    /\ UNCHANGED <<jobs, callers, api, attempt, selector>>

\* the delay left out after a failed attempt
WriteStatus_continue_on_failure ==
    /\ engine.pc = "update"
    /\ apps' = update_application_status(
                  apps, engine.application, TerminalStatus(engine.success),
                  IF engine.success THEN NULL ELSE "Application could not be completed")
    /\ LET e == [engine EXCEPT
                    !.stats.successful = IF engine.success THEN @ + 1 ELSE @,
                    !.stats.failed = IF engine.success THEN @ ELSE @ + 1]
       IN  engine' = IF engine.success THEN [e EXCEPT !.pc = "sleep"]
                     ELSE IF engine.i < Len(engine.jobs)
                          THEN [e EXCEPT !.pc = "create", !.i = @ + 1]
                          ELSE [e EXCEPT !.pc = "idle", !.returned = TRUE]
    /\ UNCHANGED <<jobs, callers, api, attempt, selector>>

\* apply_to_jobs, lines 341-353: count the outcome, write the status
WriteStatus ==
    /\ engine.pc = "update"
    /\ apps' = update_application_status(
                  apps, engine.application, TerminalStatus(engine.success),
                  IF engine.success THEN NULL ELSE "Application could not be completed")
    /\ engine' = [engine EXCEPT
                    !.pc = "sleep",
                    !.stats.successful = IF engine.success THEN @ + 1 ELSE @,
                    !.stats.failed = IF engine.success THEN @ ELSE @ + 1]
    /\ UNCHANGED <<jobs, callers, api, attempt, selector>>

\* the loop left at the first failed attempt
Sleep_stop_on_failure ==
    /\ engine.pc = "sleep"
    /\ engine' = IF engine.i < Len(engine.jobs) /\ engine.success
                 THEN [engine EXCEPT !.pc = "create", !.i = @ + 1]
                 ELSE [engine EXCEPT !.pc = "idle", !.returned = TRUE,
                                     !.browser = FALSE]
    /\ UNCHANGED <<jobs, apps, callers, api, attempt, selector>>

\* apply_to_jobs, lines 355-369: the delay, then the next listing, or the
\* end of the loop: close the session and return the stats
Sleep ==
    /\ engine.pc = "sleep"
    /\ engine' = IF engine.i < Len(engine.jobs)
                 THEN [engine EXCEPT !.pc = "create", !.i = @ + 1]
                 ELSE [engine EXCEPT !.pc = "idle", !.returned = TRUE,
                                     !.browser = FALSE]
    /\ UNCHANGED <<jobs, apps, callers, api, attempt, selector>>

\* LinkedInScraper.run stores what it found, between the runs of the applier
Discover(d) ==
    /\ engine.pc = "idle"
    /\ AddJob(d)
    /\ UNCHANGED api

NextEngine ==
    \/ \E d \in QueryData : Discover(d)
    \/ \E on \in BOOLEAN, given \in BOOLEAN, m \in 0..MaxRequested : Run(on, given, m)
    \/ CreatePending
    \/ \E outcome \in PageOutcomes : ApplyToJob(outcome)
    \/ WriteStatus
    \/ Sleep

SpecEngine == Init /\ [][NextEngine]_vars

\* the steps of a run that has fetched its listings
EngineStep ==
    \/ CreatePending
    \/ \E outcome \in PageOutcomes : ApplyToJob(outcome)
    \/ WriteStatus
    \/ Sleep

\* the event loop runs the one task there is, and every await of apply_to_jobs
\* returns: the store calls are synchronous, apply_to_job returns (it catches
\* what its page operations raise, and they time out), the delay ends
SpecEngineFair == SpecEngine /\ WF_vars(EngineStep)

TerminalStatuses == ApplicationStatus \ {PENDING}

\* C8: an Application whose status is terminal never has status pending
\* again, in any execution of the program.
C8_NoRevertToPending ==
    [][\A a \in DOMAIN apps :
          apps[a].status \in TerminalStatuses
          => (a \in DOMAIN apps' /\ apps'[a].status # PENDING)]_vars

\* a listing whose earlier application failed is being attempted again, under
\* a new pending application
C8_Witness ==
    /\ engine.pc = "apply"
    /\ \E a \in DOMAIN apps :
          /\ a # engine.application
          /\ apps[a].job_id = apps[engine.application].job_id
          /\ apps[a].status = FAILED
    /\ apps[engine.application].status = PENDING

\* C9: for each listing of a batch, apply_to_jobs appends one pending
\* Application for that listing, then runs apply_to_job, then changes that one
\* row, from pending to a terminal status, then sleeps; no other row is
\* written and no step of the listing's attempt is repeated or left out.
C9_Lifecycle ==
    [][/\ engine.pc = "create"
          => /\ engine'.pc = "apply"
             /\ apps' = Append(apps, [job_id |-> engine.jobs[engine.i],
                                      status |-> PENDING,
                                      applied_at |-> NULL,
                                      error_message |-> NULL])
             /\ engine'.application = Len(apps')
       /\ engine.pc = "apply"
          => (engine'.pc = "update" /\ apps' = apps /\ engine'.application = engine.application)
       /\ engine.pc = "update"
          => /\ engine'.pc = "sleep"
             /\ apps[engine.application].status = PENDING
             /\ DOMAIN apps' = DOMAIN apps
             /\ apps'[engine.application].status \in TerminalStatuses
             /\ apps'[engine.application].job_id = engine.jobs[engine.i]
             /\ \A a \in DOMAIN apps : a # engine.application => apps'[a] = apps[a]
       /\ engine.pc = "sleep"
          => /\ apps' = apps
             /\ \/ engine'.pc = "create" /\ engine'.i = engine.i + 1
                \/ engine'.pc = "idle" /\ engine.i = Len(engine.jobs)
      ]_vars

\* the second listing of a batch has had its status written, after the first
\* one failed and this one was submitted
C9_Witness ==
    /\ engine.pc = "sleep"
    /\ engine.i = 2
    /\ Len(apps) = 2
    /\ apps[1].status = FAILED /\ apps[2].status = EASY_APPLY
    /\ apps[1].job_id # apps[2].job_id

\* ------------------------------------------------- one call of apply_to_job
\* The call is followed from one await to the next. attempt.pc is the place
\* the coroutine has reached; what the page shows at each query is an input.

\* MaxFields  most elements query_selector_all returns for the required
\*            fields, and for the radio groups, of one form step
MaxFields == 1

\* _complete_application_modal, line 90
max_steps == 10

\* a page operation is issued by the call in state a
PageOp(a) == [a EXCEPT !.after_raise = @ \/ a.raised]

\* apply_to_job returns
Return(a, result, outcome) ==
    [a EXCEPT !.pc = "returned", !.result = result, !.outcome = outcome]

Raise_carry_on(a) == [PageOp(a) EXCEPT !.raised = TRUE]

\* a page operation raises where nothing but the handler of apply_to_job,
\* lines 84-86, catches it: the call returns False
Raise(a) == Return([PageOp(a) EXCEPT !.raised = TRUE], FALSE, "error")

\* a page operation raises inside one of the two loops of
\* _fill_application_step, whose handlers (lines 254-255 and 279-280) go on
\* with the next element
Swallow(a) == [PageOp(a) EXCEPT !.raised = TRUE]

\* what a query for a text marker finds: no element, an element with another
\* text, an element whose text holds the phrase looked for
Markers == {"none", "other", "found"}

\* the words the code looks for in the text of the primary button
Words == {"submit", "next", "continue", "review"}

\* the primary button: absent, or present with a text holding some of Words
PrimaryButtons ==
    {[present |-> FALSE, text |-> {}]} \cup [present : {TRUE}, text : SUBSET Words]

\* lines 118-131: the branch taken for the text of the primary button
PrimaryBranch(text) ==
    IF "submit" \in text THEN "submit"
    ELSE IF "next" \in text \/ "continue" \in text THEN "fill"
    ELSE IF "review" \in text THEN "review"
    ELSE "none"

\* apply_to_job is called
Call ==
    /\ attempt.pc \in {"idle", "returned"}
    /\ attempt' = [NoAttempt EXCEPT !.pc = "goto"]
    /\ UNCHANGED <<jobs, apps, callers, api, engine, selector>>

\* lines 44-45
Goto(ok) ==
    /\ attempt.pc = "goto"
    /\ attempt' = IF ok THEN [PageOp(attempt) EXCEPT !.pc = "already_applied"]
                  ELSE Raise(attempt)
    /\ UNCHANGED <<jobs, apps, callers, api, engine, selector>>

\* lines 48-55
CheckAlreadyApplied(marker, ok) ==
    /\ attempt.pc = "already_applied"
    /\ attempt' = IF ~ok THEN Raise(attempt)
                  ELSE IF marker = "found"
                       THEN Return(PageOp(attempt), FALSE, "already_applied")
                       ELSE [PageOp(attempt) EXCEPT !.pc = "easy_apply_btn"]
    /\ UNCHANGED <<jobs, apps, callers, api, engine, selector>>

\* lines 58-77: the button is looked for, its text read, and it is clicked
FindEasyApply(marker, ok) ==
    /\ attempt.pc = "easy_apply_btn"
    /\ attempt' = IF ~ok THEN Raise(attempt)
                  ELSE IF marker = "none"
                       THEN Return(PageOp(attempt), FALSE, "no_button")
                  ELSE IF marker = "other"
                       THEN Return(PageOp(attempt), FALSE, "not_easy_apply")
                  ELSE [PageOp(attempt) EXCEPT !.pc = "loop", !.step = 0]
    /\ UNCHANGED <<jobs, apps, callers, api, engine, selector>>

LoopTest_inclusive(step) == step <= max_steps

\* line 93
LoopTest(step) == step < max_steps

\* lines 93-106 and 168-169: the loop test, and the start of an iteration
LoopTop(marker, ok) ==
    /\ attempt.pc = "loop"
    /\ attempt' =
          IF ~LoopTest(attempt.step) THEN Return(attempt, FALSE, "exhausted")
          ELSE LET a == [attempt EXCEPT !.step = @ + 1, !.branch = "none",
                                        !.ops = <<>>, !.error_seen = FALSE]
               IN  IF ~ok THEN Raise(a)
                   ELSE IF marker = "found"
                        THEN Return([PageOp(a) EXCEPT !.blank = FALSE,
                                                      !.confirmed = TRUE],
                                    TRUE, "submitted")
                        ELSE [PageOp(a) EXCEPT !.pc = "submit_btn"]
    /\ UNCHANGED <<jobs, apps, callers, api, engine, selector>>

\* lines 109-133
PrimaryButton(submit_btn, ok) ==
    /\ attempt.pc = "submit_btn"
    /\ attempt' =
          IF ~ok THEN Raise(attempt)
          ELSE LET branch == IF submit_btn.present
                             THEN PrimaryBranch(submit_btn.text) ELSE "none"
                   a == [PageOp(attempt) EXCEPT !.blank = @ /\ branch = "none",
                                                !.branch = branch]
               IN  CASE branch = "submit" ->
                          Return([a EXCEPT !.ops = <<"click">>], TRUE, "submitted")
                     [] branch = "fill"   -> [a EXCEPT !.pc = "resume_input",
                                                       !.control = "submit_btn",
                                                       !.ops = <<"fill">>]
                     [] branch = "review" -> [a EXCEPT !.pc = "loop",
                                                       !.ops = <<"click">>]
                     [] OTHER             -> [a EXCEPT !.pc = "next_btn"]
    /\ UNCHANGED <<jobs, apps, callers, api, engine, selector>>

\* lines 136-143
NextButton(present, ok) ==
    /\ attempt.pc = "next_btn"
    /\ attempt' =
          IF ~ok THEN Raise(attempt)
          ELSE IF present
               THEN [PageOp(attempt) EXCEPT !.pc = "resume_input",
                                            !.control = "next_btn", !.blank = FALSE,
                                            !.branch = "next_btn", !.ops = <<"fill">>]
               ELSE [PageOp(attempt) EXCEPT !.pc = "dismiss_btn"]
    /\ UNCHANGED <<jobs, apps, callers, api, engine, selector>>

\* lines 146-157
DismissButton(present, content, ok) ==
    /\ attempt.pc = "dismiss_btn"
    /\ attempt' =
          IF ~ok THEN Raise(attempt)
          ELSE IF present /\ content = "found"
               THEN Return([PageOp(attempt) EXCEPT !.blank = FALSE, !.confirmed = TRUE,
                                                         !.ops = <<"click">>],
                           TRUE, "submitted")
               ELSE [PageOp(attempt) EXCEPT !.pc = "error_elem"]
    /\ UNCHANGED <<jobs, apps, callers, api, engine, selector>>

\* the call ended when the form shows an error
ErrorElem_fatal(present, ok) ==
    /\ attempt.pc = "error_elem"
    /\ attempt' = IF ~ok THEN Raise(attempt)
                  ELSE IF present
                       THEN Return([PageOp(attempt) EXCEPT !.error_seen = TRUE],
                                   FALSE, "exhausted")
                       ELSE [PageOp(attempt) EXCEPT !.pc = "loop"]
    /\ UNCHANGED <<jobs, apps, callers, api, engine, selector>>

\* lines 160-166, and back to the loop test: the error marker, when there is
\* one, is read and printed
ErrorElem(present, ok) ==
    /\ attempt.pc = "error_elem"
    /\ attempt' = IF ok THEN [PageOp(attempt) EXCEPT !.pc = "loop",
                                                     !.error_seen = present]
                  ELSE Raise(attempt)
    /\ UNCHANGED <<jobs, apps, callers, api, engine, selector>>

\* _fill_application_step, lines 174-194: the file input is absent, or
\* present and the chosen file uploaded, or present and the file missing
ResumeInput(ok) ==
    /\ attempt.pc = "resume_input"
    /\ attempt' = IF ok THEN [PageOp(attempt) EXCEPT !.pc = "cover_letter_input"]
                  ELSE Raise(attempt)
    /\ UNCHANGED <<jobs, apps, callers, api, engine, selector>>

\* what the call of the LLM provider inside generate does: it returns a
\* text, an empty text or None, or it raises
ProviderOutcomes == {"text", "empty", "None", "raises"}

\* an error of the provider let through
generate_unguarded(provider) == provider

\* CoverLetterGenerator.generate, lines 84-98: what the provider returns,
\* and None when it raises
generate(provider) == IF provider = "raises" THEN "None" ELSE provider

\* lines 197-211: with the textarea present and a generator configured, the
\* cover letter is generated, and filled in when it is not None or empty; an
\* error out of generate is caught nowhere in _fill_application_step
CoverLetterInput(present, configured, provider, ok) ==
    /\ attempt.pc = "cover_letter_input"
    /\ attempt' =
          IF ~ok THEN Raise(attempt)
          ELSE IF present /\ configured
               THEN LET cover_letter == generate(provider)
                        a == [PageOp(attempt) EXCEPT !.provider = provider]
                    IN  IF cover_letter = "raises" THEN Raise(a)
                        ELSE [a EXCEPT !.pc = "phone_input",
                                       !.cover_filled = (cover_letter = "text")]
               ELSE [PageOp(attempt) EXCEPT !.pc = "phone_input"]
    /\ UNCHANGED <<jobs, apps, callers, api, engine, selector>>

\* lines 214-223; the resolver is done with the cover letter
PhoneInput(ok) ==
    /\ attempt.pc = "phone_input"
    /\ attempt' = IF ok THEN [PageOp(attempt) EXCEPT !.pc = "required_fields",
                                                     !.provider = "not_called",
                                                     !.cover_filled = FALSE]
                  ELSE Raise(attempt)
    /\ UNCHANGED <<jobs, apps, callers, api, engine, selector>>

\* lines 226-229: n elements are found
RequiredFields(n, ok) ==
    /\ attempt.pc = "required_fields"
    /\ attempt' = IF ok THEN [PageOp(attempt) EXCEPT
                                 !.pc = IF n > 0 THEN "field" ELSE "radio_groups",
                                 !.fields = n]
                  ELSE Raise(attempt)
    /\ UNCHANGED <<jobs, apps, callers, api, engine, selector>>

\* lines 231-255: one required field; an error raised while it is handled is
\* caught and the loop goes on
Field(ok) ==
    /\ attempt.pc = "field"
    /\ attempt' = [(IF ok THEN PageOp(attempt) ELSE Swallow(attempt)) EXCEPT
                      !.fields = @ - 1,
                      !.pc = IF attempt.fields > 1 THEN "field" ELSE "radio_groups"]
    /\ UNCHANGED <<jobs, apps, callers, api, engine, selector>>

\* lines 258-260: n groups are found
RadioGroups(n, ok) ==
    /\ attempt.pc = "radio_groups"
    /\ attempt' = IF ok THEN [PageOp(attempt) EXCEPT
                                 !.pc = IF n > 0 THEN "group" ELSE "click",
                                 !.groups = n]
                  ELSE Raise(attempt)
    /\ UNCHANGED <<jobs, apps, callers, api, engine, selector>>

\* lines 262-280: one radio group; an error raised while it is handled is
\* caught and the loop goes on
Group(ok) ==
    /\ attempt.pc = "group"
    /\ attempt' = [(IF ok THEN PageOp(attempt) ELSE Swallow(attempt)) EXCEPT
                      !.groups = @ - 1,
                      !.pc = IF attempt.groups > 1 THEN "group" ELSE "click"]
    /\ UNCHANGED <<jobs, apps, callers, api, engine, selector>>

\* lines 128-129 and 142-143: the button of this step is clicked and the
\* loop continues
ClickControl(ok) ==
    /\ attempt.pc = "click"
    /\ attempt' = IF ok THEN [PageOp(attempt) EXCEPT !.pc = "loop", !.control = "none",
                                                     !.ops = Append(@, "click")]
                  ELSE Raise(attempt)
    /\ UNCHANGED <<jobs, apps, callers, api, engine, selector>>

\* the steps of a running call
AttemptStep ==
    \/ \E ok \in BOOLEAN : Goto(ok)
    \/ \E marker \in Markers, ok \in BOOLEAN : CheckAlreadyApplied(marker, ok)
    \/ \E marker \in Markers, ok \in BOOLEAN : FindEasyApply(marker, ok)
    \/ \E marker \in Markers, ok \in BOOLEAN : LoopTop(marker, ok)
    \/ \E submit_btn \in PrimaryButtons, ok \in BOOLEAN : PrimaryButton(submit_btn, ok)
    \/ \E present \in BOOLEAN, ok \in BOOLEAN : NextButton(present, ok)
    \/ \E present \in BOOLEAN, content \in Markers, ok \in BOOLEAN :
          DismissButton(present, content, ok)
    \/ \E present \in BOOLEAN, ok \in BOOLEAN : ErrorElem(present, ok)
    \/ \E ok \in BOOLEAN : ResumeInput(ok)
    \/ \E present \in BOOLEAN, configured \in BOOLEAN, provider \in ProviderOutcomes,
          ok \in BOOLEAN : CoverLetterInput(present, configured, provider, ok)
    \/ \E ok \in BOOLEAN : PhoneInput(ok)
    \/ \E n \in 0..MaxFields, ok \in BOOLEAN : RequiredFields(n, ok)
    \/ \E ok \in BOOLEAN : Field(ok)
    \/ \E n \in 0..MaxFields, ok \in BOOLEAN : RadioGroups(n, ok)
    \/ \E ok \in BOOLEAN : Group(ok)
    \/ \E ok \in BOOLEAN : ClickControl(ok)

NextModal == Call \/ AttemptStep

\* every await of the call returns or raises (the page operations have a
\* timeout), so a running call always takes its next step
SpecModal == Init /\ [][NextModal]_vars /\ WF_vars(AttemptStep)

\* C11: the loop of _complete_application_modal runs at most max_steps
\* iterations, whatever the form shows, and the call then returns; when no
\* iteration sees a success marker or a control the loop acts on, it returns
\* False after exactly max_steps iterations.
C11_ModalTerminates ==
    /\ [](attempt.step <= max_steps)
    /\ [](attempt.pc = "returned" /\ attempt.outcome = "exhausted"
            => ~attempt.result /\ attempt.step = max_steps)
    /\ [](attempt.pc = "returned" /\ attempt.blank /\ ~attempt.raised
          /\ attempt.outcome \notin {"already_applied", "no_button", "not_easy_apply"}
            => attempt.outcome = "exhausted")
    /\ (attempt.pc = "loop" ~> attempt.pc = "returned")

\* the loop gave up on a form that offered next on every one of its steps
C11_Witness ==
    /\ attempt.pc = "returned"
    /\ attempt.outcome = "exhausted"
    /\ ~attempt.blank
    /\ attempt.step = max_steps

\* --------------------------------------- apply_to_jobs with its page script
\* The run of SpecEngine with the call of apply_to_job followed step by
\* step, over a store with one listing.

AttemptData == [linkedin_job_id : {"1"}, is_easy_apply : {TRUE}, scraped_at : {1}]

\* apply_to_jobs, line 339: apply_to_job is called
ApplyCall ==
    /\ engine.pc = "apply"
    /\ attempt.pc = "idle"
    /\ Call

\* an error of the call let through to apply_to_jobs, which ends the run
ApplyReturn_reraise ==
    /\ engine.pc = "apply"
    /\ attempt.pc = "returned"
    /\ engine' = IF attempt.outcome = "error"
                 THEN [engine EXCEPT !.pc = "idle", !.returned = TRUE,
                                     !.outcome = attempt.outcome]
                 ELSE [engine EXCEPT !.pc = "update", !.success = attempt.result,
                                     !.outcome = attempt.outcome]
    /\ attempt' = [attempt EXCEPT !.pc = "idle"]
    /\ UNCHANGED <<jobs, apps, callers, api, selector>>

\* apply_to_jobs, line 339: apply_to_job has returned; the record of the
\* call is kept until the next one
ApplyReturn ==
    /\ engine.pc = "apply"
    /\ attempt.pc = "returned"
    /\ engine' = [engine EXCEPT !.pc = "update", !.success = attempt.result,
                                !.outcome = attempt.outcome]
    /\ attempt' = [attempt EXCEPT !.pc = "idle"]
    /\ UNCHANGED <<jobs, apps, callers, api, selector>>

NextAttempt ==
    \/ \E d \in AttemptData : Discover(d)
    \/ \E on \in BOOLEAN, given \in BOOLEAN, m \in 0..MaxRequested : Run(on, given, m)
    \/ CreatePending
    \/ ApplyCall
    \/ AttemptStep
    \/ ApplyReturn
    \/ WriteStatus
    \/ Sleep

SpecAttempt == Init /\ [][NextAttempt]_vars

\* the ways out of apply_to_job before the form is opened
SkipOutcomes == {"already_applied", "no_button", "not_easy_apply"}

\* C12: when apply_to_job ends because the page signals a prior application,
\* or the apply button is absent or is not Easy Apply, the batch writes
\* status skipped to the listing's Application, and the listing is in no
\* later result of get_unapplied_easy_apply_jobs.
C12_SkippedMapping ==
    engine.pc = "sleep" /\ engine.outcome \in SkipOutcomes
    => /\ apps[engine.application].status = SKIPPED
       /\ \A limit \in Limits : \A r \in get_unapplied_easy_apply_jobs(limit) :
             engine.jobs[engine.i] \notin Range(r)

Completed == engine.pc = "idle" /\ engine.returned

\* the applications the current run has created
Mine == (engine.base + 1)..Len(apps)

\* C14: a run attempts every listing of its batch, the first max_apps
\* fetched, in the order fetched, whatever the outcomes: after an attempt the
\* run goes on to the next listing whether the attempt succeeded or failed,
\* and a run that has started its loop ends with all of them attempted.
C14_BatchNeverAbortsEarly ==
    /\ [](Completed => engine.stats.attempted = Len(engine.jobs))
    /\ [](\A k \in 1..engine.stats.attempted :
             apps[engine.base + k].job_id = engine.jobs[k])
    /\ [][engine.pc = "sleep" /\ engine.i < Len(engine.jobs)
            => engine'.pc = "create" /\ engine'.i = engine.i + 1]_vars
    /\ \A n \in 1..MaxApps :
          (engine.pc = "create" /\ engine.i = 1 /\ Len(engine.jobs) = n)
          ~> (Completed /\ engine.stats.attempted = n)

\* a run of two listings has ended; the first attempt failed and the second
\* was made all the same
C14_Witness ==
    /\ Completed
    /\ Len(engine.jobs) = 2
    /\ engine.stats.attempted = 2
    /\ apps[engine.base + 1].status = FAILED
    /\ apps[engine.base + 2].status = EASY_APPLY

\* C15: when a run has ended, attempted = successful + failed, attempted is
\* the number of applications the run created, successful the number of them
\* it set to easy_apply and failed the number it set to failed; this holds
\* too when every attempt failed and when there was no listing to attempt.
C15_AggregateCounts ==
    Completed
    => /\ engine.stats.attempted = engine.stats.successful + engine.stats.failed
       /\ engine.stats.attempted = Cardinality(Mine)
       /\ engine.stats.successful =
             Cardinality({a \in Mine : apps[a].status = EASY_APPLY})
       /\ engine.stats.failed =
             Cardinality({a \in Mine : apps[a].status = FAILED})

\* a run has ended in which both attempts failed
C15_Witness ==
    /\ Completed
    /\ engine.stats.attempted = 2
    /\ engine.stats.failed = 2
    /\ engine.stats.successful = 0

\* C16: a run called with max_applications = m, m >= 0, attempts at most m
\* listings and creates at most m applications.
C16_AtMostRequested ==
    engine.given
    => /\ engine.stats.attempted <= engine.requested
       /\ Cardinality(Mine) <= engine.requested

\* C17: the attempts of a run are strictly sequential: of the applications
\* the run has created, none is pending when the next one is created, and
\* while apply_to_job runs for a listing the only pending one is that
\* listing's.
C17_StrictlySequential ==
    LET open == {a \in Mine : apps[a].status = PENDING}
    IN  /\ engine.pc \in {"apply", "update"} => open = {engine.application}
        /\ engine.pc \in {"create", "sleep", "idle"} => open = {}
        /\ engine.pc \in {"apply", "update"}
           => apps[engine.application].job_id = engine.jobs[engine.i]

\* the page operations of the second listing are under way and the first
\* listing's application has its terminal status
C17_Witness ==
    /\ engine.pc = "apply"
    /\ engine.i = 2
    /\ engine.application = engine.base + 2
    /\ apps[engine.base + 1].status \in TerminalStatuses
    /\ apps[engine.base + 2].status = PENDING

\* C18: after the terminal status of an attempt is written the run always
\* sleeps, whether the attempt succeeded or failed, and an attempt other than
\* the first of a run starts only out of that sleep.
C18_CooldownBetweenAttempts ==
    [][/\ engine.pc = "update" => engine'.pc = "sleep" /\ engine'.i = engine.i
       /\ engine'.pc = "create" /\ engine'.i > 1
          => engine.pc = "sleep" /\ engine.i = engine'.i - 1
       /\ engine'.pc = "create" /\ engine'.i = 1 => engine.pc = "idle"
      ]_vars

\* the run sleeps after a failed attempt, with a listing still to attempt
C18_Witness ==
    /\ engine.pc = "sleep"
    /\ ~engine.success
    /\ apps[engine.application].status = FAILED
    /\ engine.i < Len(engine.jobs)

\* C19: a listing that has an application with status easy_apply is never
\* attempted by a run that fetches its listings from the store, whatever
\* other applications the listing has.
C19_NoReattemptAfterEasyApply ==
    /\ engine.pc \in {"create", "apply", "update"}
       => ~HasApplication(engine.jobs[engine.i], {EASY_APPLY})
    /\ engine.pc = "create"
       => \A k \in engine.i..Len(engine.jobs) :
             ~HasApplication(engine.jobs[k], {EASY_APPLY})

\* a run found nothing to attempt: the one easy-apply listing had failed
\* once and was then submitted
C19_Witness ==
    /\ Completed
    /\ engine.jobs = <<>>
    /\ engine.max_apps > 0
    /\ engine.base = Len(apps)
    /\ \E k \in DOMAIN jobs :
          /\ jobs[k].is_easy_apply
          /\ HasApplication(k, {FAILED})
          /\ HasApplication(k, {EASY_APPLY})

\* ------------------------------------------------------- the resume selector
\* selector.profiles is self.resume_profiles, a dict, as the sequence of its
\* values in insertion order, each with its key.  Texts are taken over a
\* two-letter alphabet, one letter of it in upper case, and keywords over the
\* lower-case letters and the space.

\* MaxText  longest job_title
MaxText == 1

Alphabet == {"a", "B"}

\* str.lower, character by character
LowerChar(ch) == IF ch = "B" THEN "b" ELSE ch
Lower(text) == [i \in DOMAIN text |-> LowerChar(text[i])]

\* keyword in text: text has keyword as a substring
Contains(keyword, text) ==
    \E i \in 0..(Len(text) - Len(keyword)) :
        SubSeq(text, i + 1, i + Len(keyword)) = keyword

\* x or ''
OrEmpty(text) == IF text = NoneText THEN <<>> ELSE text

\* select_resume, line 83
SearchText(job_title, job_description, company) ==
    Lower(job_title \o <<" ">> \o OrEmpty(job_description) \o <<" ">> \o OrEmpty(company))

resumes_dir == "./resumes"

\* str(self.resumes_dir / file)
PathOf(file) == <<resumes_dir, file>>

\* select_resume, lines 86-97: the keywords found, one count for each
\* element of the list, times the weight
Score(profile, search_text) ==
    Cardinality({k \in DOMAIN profile.keywords :
                    Contains(Lower(profile.keywords[k]), search_text)})
    * profile.weight

\* max(scores.items(), key=...), line 112: the first of the greatest
Best(profiles, search_text) ==
    CHOOSE i \in DOMAIN profiles :
        /\ \A j \in DOMAIN profiles :
              Score(profiles[j], search_text) <= Score(profiles[i], search_text)
        /\ \A j \in 1..(i - 1) :
              Score(profiles[j], search_text) < Score(profiles[i], search_text)

\* the last profile as the default
select_resume_last_default(profiles, job_title, job_description, company) ==
    IF profiles = <<>> THEN NoPath
    ELSE IF Len(profiles) = 1 THEN PathOf(profiles[1].file)
    ELSE LET search_text == SearchText(job_title, job_description, company)
         IN  IF \A i \in DOMAIN profiles : ~(Score(profiles[i], search_text) > 0)
             THEN PathOf(profiles[Len(profiles)].file)
             ELSE PathOf(profiles[Best(profiles, search_text)].file)

\* a single profile scored like any other, and None when it has no keyword
\* in the text
select_resume_no_shortcut(profiles, job_title, job_description, company) ==
    IF profiles = <<>> THEN NoPath
    ELSE LET search_text == SearchText(job_title, job_description, company)
         IN  IF \A i \in DOMAIN profiles : ~(Score(profiles[i], search_text) > 0)
             THEN IF Len(profiles) = 1 THEN NoPath ELSE PathOf(profiles[1].file)
             ELSE PathOf(profiles[Best(profiles, search_text)].file)

\* None returned when no keyword is found
select_resume_no_default(profiles, job_title, job_description, company) ==
    IF profiles = <<>> THEN NoPath
    ELSE IF Len(profiles) = 1 THEN PathOf(profiles[1].file)
    ELSE LET search_text == SearchText(job_title, job_description, company)
         IN  IF \A i \in DOMAIN profiles : ~(Score(profiles[i], search_text) > 0)
             THEN NoPath
             ELSE PathOf(profiles[Best(profiles, search_text)].file)

\* select_resume, lines 56-121
select_resume(profiles, job_title, job_description, company) ==
    IF profiles = <<>> THEN NoPath
    ELSE IF Len(profiles) = 1 THEN PathOf(profiles[1].file)
    ELSE LET search_text == SearchText(job_title, job_description, company)
         IN  IF \A i \in DOMAIN profiles : ~(Score(profiles[i], search_text) > 0)
             THEN PathOf(profiles[1].file)
             ELSE PathOf(profiles[Best(profiles, search_text)].file)

\* the keys of the dict, and the file of each
ProfileNames == {"backend", "embedded", "custom"}
FileOf(name) ==
    CASE name = "backend" -> "Backend.pdf"
      [] name = "embedded" -> "embedded.pdf"
      [] OTHER -> "custom.pdf"

\* the keyword lists a profile may have: one keyword, a keyword twice, two
\* keywords, a keyword with a space in it
KeywordLists ==
    { << <<"a">> >>, << <<"b">>, <<"b">> >>, << <<"a">>, <<"b">> >>, << <<"a", " ", "b">> >> }

Weights == {1, 2}

Profiles == [name : ProfileNames, file : {"Backend.pdf", "embedded.pdf", "custom.pdf"},
             keywords : KeywordLists, weight : Weights]

\* the dicts: profiles of distinct keys, in every order
ProfileDicts ==
    {d \in SeqsUpTo({p \in Profiles : p.file = FileOf(p.name)}, Cardinality(ProfileNames)) :
        \A i, j \in DOMAIN d : i # j => d[i].name # d[j].name}

Texts(n) == SeqsUpTo(Alphabet, n)
OptionalTexts == {NoneText} \cup Texts(1)

\* __init__ and _load_resume_profiles, lines 33-54, and the calls of
\* add_custom_profile made before the selector is used: the dict holds the
\* profiles whose file was found
InitResume ==
    /\ jobs = <<>>
    /\ apps = <<>>
    /\ callers = [c \in Callers |-> Idle]
    /\ api = NoCall
    /\ engine = NoRun
    /\ attempt = NoAttempt
    /\ selector \in [profiles : ProfileDicts, call : {NoSelect}]

\* add_custom_profile, lines 133-158: d[name] = value keeps the place of a
\* key the dict has, and puts a new key last
add_custom_profile(profiles, name, keywords, weight) ==
    LET value == [name |-> name, file |-> FileOf(name),
                  keywords |-> [k \in DOMAIN keywords |-> Lower(keywords[k])],
                  weight |-> weight]
    IN  IF \E i \in DOMAIN profiles : profiles[i].name = name
        THEN [i \in DOMAIN profiles |->
                 IF profiles[i].name = name THEN value ELSE profiles[i]]
        ELSE Append(profiles, value)

AddCustomProfile(name, exists, keywords, weight) ==
    /\ ~selector.call.called
    /\ exists
    /\ selector' = [selector EXCEPT
                      !.profiles = add_custom_profile(@, name, keywords, weight)]
    /\ UNCHANGED <<jobs, apps, callers, api, engine, attempt>>

\* select_resume is called and returns
SelectResume(job_title, job_description, company) ==
    /\ ~selector.call.called
    /\ selector' = [selector EXCEPT
                      !.call = [called |-> TRUE, job_title |-> job_title,
                                job_description |-> job_description,
                                company |-> company,
                                result |-> select_resume(selector.profiles, job_title,
                                                         job_description, company)]]
    /\ UNCHANGED <<jobs, apps, callers, api, engine, attempt>>

\* the caller has taken what select_resume returned
TakeResume ==
    /\ selector.call.called
    /\ selector' = [selector EXCEPT !.call = NoSelect]
    /\ UNCHANGED <<jobs, apps, callers, api, engine, attempt>>

NextResume ==
    \/ \E name \in ProfileNames, exists \in BOOLEAN, keywords \in KeywordLists,
          weight \in Weights : AddCustomProfile(name, exists, keywords, weight)
    \/ \E job_title \in Texts(MaxText), job_description \in OptionalTexts,
          company \in OptionalTexts : SelectResume(job_title, job_description, company)
    \/ TakeResume

SpecResume == InitResume /\ [][NextResume]_vars

\* C20: select_resume returns None if and only if no profile is loaded; with
\* a profile loaded it returns the path of a loaded profile's file, for every
\* job_title, job_description and company, None and the empty text included.
C20_NoneIffNoProfiles ==
    selector.call.called
    => /\ selector.call.result = NoPath <=> selector.profiles = <<>>
       /\ selector.profiles # <<>>
          => \E i \in DOMAIN selector.profiles :
                selector.call.result = PathOf(selector.profiles[i].file)

\* with two profiles loaded, a call with no description and no company, and
\* a title in which no keyword is found, has returned a path
C20_Witness ==
    /\ selector.call.called
    /\ Len(selector.profiles) >= 2
    /\ selector.call.job_description = NoneText
    /\ selector.call.company = NoneText
    /\ \A i \in DOMAIN selector.profiles :
          Score(selector.profiles[i],
                SearchText(selector.call.job_title, NoneText, NoneText)) = 0
    /\ selector.call.result # NoPath

\* the text select_resume searched in its last call
CallText ==
    SearchText(selector.call.job_title, selector.call.job_description,
               selector.call.company)

\* C21: with two or more profiles loaded and no profile scoring above zero,
\* select_resume returns the path of the profile loaded first; the result is
\* fixed by the profiles and the input, so every call with the same input
\* and profiles returns it.
C21_FallbackToFirstLoaded ==
    /\ selector.call.called
    /\ Len(selector.profiles) >= 2
    /\ \A i \in DOMAIN selector.profiles : ~(Score(selector.profiles[i], CallText) > 0)
    => selector.call.result = PathOf(selector.profiles[1].file)

\* three profiles, none with a keyword in the text; the call returned the
\* path of the first, which is not the path of the others
C21_Witness ==
    /\ selector.call.called
    /\ Len(selector.profiles) = 3
    /\ \A i \in DOMAIN selector.profiles : Score(selector.profiles[i], CallText) = 0
    /\ selector.call.result = PathOf(selector.profiles[1].file)
    /\ selector.call.job_title # <<>>

\* the score as C22 states it: the weight times the number of distinct
\* keywords of the profile found in the text
DistinctScore(profile, search_text) ==
    Cardinality({kw \in Range(profile.keywords) : Contains(Lower(kw), search_text)})
    * profile.weight

\* C22: with two or more profiles loaded, select_resume returns the path of
\* the profile whose score, weight times the number of its distinct keywords
\* found in the lowercased title, description and company, is greatest, and
\* of the first loaded among those of the greatest score.
C22_DistinctKeywordScore ==
    selector.call.called /\ Len(selector.profiles) >= 2
    => \E i \in DOMAIN selector.profiles :
          /\ selector.call.result = PathOf(selector.profiles[i].file)
          /\ \A j \in DOMAIN selector.profiles :
                DistinctScore(selector.profiles[j], CallText)
                   <= DistinctScore(selector.profiles[i], CallText)
          /\ \A j \in 1..(i - 1) :
                DistinctScore(selector.profiles[j], CallText)
                   < DistinctScore(selector.profiles[i], CallText)

\* C23: with exactly one profile loaded, select_resume returns the path of
\* that profile for every input, whatever the text holds.
C23_SingleProfileShortcut ==
    selector.call.called /\ Len(selector.profiles) = 1
    => selector.call.result = PathOf(selector.profiles[1].file)

\* one profile, an empty title and description, no company, none of the
\* profile's keywords in the text: its path was returned
C23_Witness ==
    /\ selector.call.called
    /\ Len(selector.profiles) = 1
    /\ selector.call.job_title = <<>>
    /\ selector.call.job_description = <<>>
    /\ selector.call.company = NoneText
    /\ Score(selector.profiles[1], CallText) = 0
    /\ selector.call.result = PathOf(selector.profiles[1].file)

\* ------------------------------------------------ the steps of the form

\* the text provider gave no cover letter: it returned None, or it raised
ProviderFailed == attempt.provider \in {"None", "raises"}

\* C24: when the cover letter generator returns None or its provider fails,
\* the cover letter field is left unfilled and the call is not ended: the
\* resolver goes on to the phone field in the state it would be in with no
\* generator configured.
C24_ProviderFailureNonFatal ==
    /\ [](ProviderFailed => ~attempt.cover_filled)
    /\ [][attempt.pc = "cover_letter_input" /\ attempt'.provider \in {"None", "raises"}
            => attempt' = [PageOp(attempt) EXCEPT !.pc = "phone_input",
                                                  !.provider = attempt'.provider]]_vars
    /\ [][ProviderFailed /\ attempt'.pc = "required_fields"
            => attempt' = [PageOp(attempt) EXCEPT !.pc = "required_fields",
                                                  !.provider = "not_called"]]_vars

\* the provider raised in the second step of a form, and the resolver is at
\* the phone field with the cover letter field unfilled
C24_Witness ==
    /\ attempt.pc = "phone_input"
    /\ attempt.provider = "raises"
    /\ ~attempt.cover_filled
    /\ attempt.step = 2

\* C25: apply_to_job returns True only when a success marker has been seen
\* on the page, so an Application gets status easy_apply only after one was
\* seen.
C25_SubmittedOnlyOnceConfirmed ==
    /\ attempt.pc \in {"returned", "idle"} /\ attempt.result => attempt.confirmed
    /\ engine.pc = "sleep" /\ apps[engine.application].status = EASY_APPLY
       => attempt.confirmed

\* a control was clicked in the current iteration
Clicked == \E k \in DOMAIN attempt.ops : attempt.ops[k] = "click"

\* C26: in an iteration whose primary button reads submit, next or continue
\* the step resolver is called before the button is clicked; in one whose
\* button reads review the button is clicked and the resolver is not called.
C26_FillBeforeClick ==
    /\ Clicked /\ attempt.branch \in {"submit", "fill"}
       => attempt.ops = <<"fill", "click">>
    /\ Clicked /\ attempt.branch = "review" => attempt.ops = <<"click">>

\* C27: an error marker found in an iteration does not end the loop: the
\* call goes back to the loop test and, below the bound, into the next
\* iteration; a call that has returned with an error marker found in its last
\* iteration has returned because the bound was reached.
C27_ErrorMarkerNotTerminal ==
    /\ [][attempt.pc = "error_elem" /\ attempt'.error_seen
            => attempt'.pc = "loop" /\ attempt'.step = attempt.step]_vars
    /\ [][attempt.pc = "loop" /\ attempt.error_seen /\ attempt.step < max_steps
            => attempt'.step = attempt.step + 1 /\ attempt'.outcome # "exhausted"]_vars
    /\ [](attempt.pc = "returned" /\ attempt.error_seen
            => attempt.outcome = "exhausted" /\ attempt.step = max_steps)

\* an error marker was found in the third iteration and the call is back at
\* the loop test
C27_Witness ==
    /\ attempt.pc = "loop"
    /\ attempt.error_seen
    /\ attempt.step = 3

\* C28: when a run has ended, none of the applications it created is
\* pending, whatever the outcomes of its calls of apply_to_job, a call ended
\* by an error included.
C28_NoAttemptLeftPending ==
    Completed => \A a \in Mine : apps[a].status # PENDING

\* a run has ended whose call of apply_to_job was ended by an error; its
\* application is failed
C28_Witness ==
    /\ Completed
    /\ engine.outcome = "error"
    /\ attempt.raised
    /\ Mine # {}
    /\ \A a \in Mine : apps[a].status = FAILED

\* ------------------------------------------------------------- the store's stats

\* the number of applications in a status
CountStatus(status) == Cardinality({a \in DOMAIN apps : apps[a].status = status})

\* get_application_stats, lines 192-214
get_application_stats ==
    [total_jobs         |-> Len(jobs),
     total_applications |-> Len(apps),
     applied            |-> CountStatus(APPLIED),
     easy_apply         |-> CountStatus(EASY_APPLY),
     pending            |-> CountStatus(PENDING),
     skipped            |-> CountStatus(SKIPPED),
     failed             |-> CountStatus(FAILED)]

\* C29: in every state of the store, get_application_stats gives
\* total_applications equal to applied + easy_apply + pending + skipped +
\* failed, and total_jobs equal to the number of listings stored.
C29_StatsAddUp ==
    LET stats == get_application_stats
    IN  /\ stats.total_applications =
             stats.applied + stats.easy_apply + stats.pending + stats.skipped
             + stats.failed
        /\ stats.total_jobs = Cardinality(DOMAIN jobs)

\* ------------------------------------------------------ auto-apply switched off

\* run was called with the setting off, and has returned
RanDisabled == engine.returned /\ ~engine.auto_apply_enabled

\* C30: with auto_apply_enabled false, run attempts no listing: it creates no
\* application and changes none, opens no browsing session, and returns the
\* stats as they were, whatever listings the store holds.
C30_DisabledRunDoesNothing ==
    /\ [](~engine.auto_apply_enabled
            => /\ engine.pc = "idle"
               /\ engine.stats = NewStats
               /\ ~engine.browser
               /\ engine.jobs = <<>>)
    /\ [](RanDisabled => Mine = {})
    /\ [][~engine'.auto_apply_enabled => apps' = apps]_vars

\* run has returned with the setting off while the store holds a listing
\* that an enabled run would attempt
C30_Witness ==
    /\ RanDisabled
    /\ Eligible # {}
    /\ engine.stats = NewStats

====
